---- MODULE Spec2Model ----
(***************************************************************************)
(* Model of src/index.ts: main() runs fetchAndParseURL for every URL of    *)
(* the command line, awaits them, and, when --mirror is set, runs          *)
(* mirror(url) for every URL and awaits them with Promise.all.             *)
(*                                                                         *)
(* Strings are sequences of one-character strings, so that startsWith and  *)
(* URL parsing are computed.  Filesystem paths are sequences of segments   *)
(* below the output directory.  Every await of the source is one action:   *)
(* the action is the continuation that runs when the awaited promise       *)
(* settles, up to the next await.                                          *)
(***************************************************************************)
EXTENDS Integers, Sequences, FiniteSets, TLC

\* ------------------------------------------------------------------ bounds
MaxUrls == 2
MaxFaults == 1
MaxInputLen == 3

\* ----------------------------------------------------------------- strings
Http == <<"h","t","t","p",":","/","/">>
Https == <<"h","t","t","p","s",":","/","/">>
DotHtml == <<".","h","t","m","l">>
IndexHtml == <<"i","n","d","e","x",".","h","t","m","l">>

Alpha == {"a","b","c","d","e","f","g","h","i","j","k","l","m","n","o","p",
          "q","r","s","t","u","v","w","x","y","z"}
Digit == {"0","1","2","3","4","5","6","7","8","9"}
SchemeChar == Alpha \cup Digit \cup {"+","-","."}
SpecialSchemes == {<<"h","t","t","p">>, <<"h","t","t","p","s">>}

StartsWith(s, p) == Len(s) >= Len(p) /\ SubSeq(s, 1, Len(p)) = p

\* Index of the first element of s, at or after i, that is in set cs;
\* Len(s)+1 when there is none.
RECURSIVE FirstOf(_, _, _)
FirstOf(s, i, cs) ==
  IF i > Len(s) THEN Len(s) + 1
  ELSE IF s[i] \in cs THEN i
  ELSE FirstOf(s, i + 1, cs)

\* Index of the first element of s, at or after i, that is not in set cs.
RECURSIVE FirstNotOf(_, _, _)
FirstNotOf(s, i, cs) ==
  IF i > Len(s) THEN Len(s) + 1
  ELSE IF s[i] \notin cs THEN i
  ELSE FirstNotOf(s, i + 1, cs)

\* The string without its leading and trailing spaces.
RECURSIVE Trim(_)
Trim(s) ==
  IF s = <<>> THEN s
  ELSE IF s[1] = " " THEN Trim(Tail(s))
  ELSE IF s[Len(s)] = " " THEN Trim(SubSeq(s, 1, Len(s) - 1))
  ELSE s

Digits == <<"0","1","2","3","4","5","6","7","8","9">>
MaxPort == 65535

\* The number a string of digits denotes, capped at MaxPort + 1.
RECURSIVE PortValue(_, _)
PortValue(p, acc) ==
  IF p = <<>> THEN acc
  ELSE LET d == (CHOOSE n \in 1..10 : Digits[n] = p[1]) - 1
           v == acc * 10 + d
       IN PortValue(Tail(p), IF v > MaxPort THEN MaxPort + 1 ELSE v)

\* The element of a set of one element.
Only(S) == CHOOSE x \in S : TRUE

\* The host and port of an authority: ok = FALSE where the host is missing
\* or holds a space, or the port is no number up to MaxPort.  Only http and
\* https need a host.
ParseAuthority(authority, special) ==
  LET portAt == FirstOf(authority, 1, {":"})
      host == SubSeq(authority, 1, portAt - 1)
      port == SubSeq(authority, portAt + 1, Len(authority))
  IN [ok |-> /\ \A k \in 1..Len(host) : host[k] # " "
             /\ host = <<>> => (~special /\ portAt > Len(authority))
             /\ \A k \in 1..Len(port) : port[k] \in Digit
             /\ PortValue(port, 0) <= MaxPort,
      hostname |-> host]

\* new URL(s) for a string without leading and trailing spaces.
ParseTrimmed(s) ==
  LET colon == FirstOf(s, 1, {":"})
      schemeOk == /\ colon >= 2 /\ colon <= Len(s)
                  /\ s[1] \in Alpha
                  /\ \A k \in 1..(colon - 1) : s[k] \in SchemeChar
      scheme == SubSeq(s, 1, colon - 1)
      special == scheme \in SpecialSchemes
      rest == SubSeq(s, colon + 1, Len(s))
      slashed == Len(rest) >= 2 /\ rest[1] = "/" /\ rest[2] = "/"
      hostFrom == IF special THEN FirstNotOf(rest, 1, {"/"}) ELSE 3
      hostEnd == FirstOf(rest, hostFrom, {"/", "?", "#"})
      pathEnd == FirstOf(rest, hostEnd, {"?", "#"})
      path == SubSeq(rest, hostEnd, pathEnd - 1)
      opaqueEnd == FirstOf(rest, 1, {"?", "#"})
      fail == [ok |-> FALSE, scheme |-> <<>>, hostname |-> <<>>, pathname |-> <<>>]
  IN IF ~schemeOk THEN fail
     ELSE IF special \/ slashed
       THEN Only({ IF ~a.ok THEN fail
                   ELSE [ok |-> TRUE, scheme |-> scheme, hostname |-> a.hostname,
                         pathname |-> IF special /\ path = <<>>
                                        THEN <<"/">> ELSE path] :
                   a \in {ParseAuthority(SubSeq(rest, hostFrom, hostEnd - 1),
                                         special)} })
       ELSE [ok |-> TRUE, scheme |-> scheme, hostname |-> <<>>,
             pathname |-> SubSeq(rest, 1, opaqueEnd - 1)]

\* new URL(s) without a base: the scheme, the host name and the path of s,
\* or ok = FALSE where the constructor throws.  Schemes other than http and
\* https have an authority only after "//", and may have an empty host.
ParseURL(s) == Only({ParseTrimmed(t) : t \in {Trim(s)}})

\* A validator that only tests that the string is not empty.
isValidUrlNonEmpty(urlString) == urlString # <<>>

isValidUrl(urlString) ==
  IF urlString = <<>> THEN FALSE ELSE ParseURL(urlString).ok

extractDomainName(url) == ParseURL(url).hostname

\* A filter that asks the URL validator instead of testing the two prefixes.
IsFetchableAnyUrl(assetUrl) == isValidUrl(assetUrl)

\* The test of line 153: the asset is fetched only under one of two prefixes.
IsFetchable(assetUrl) == StartsWith(assetUrl, Http) \/ StartsWith(assetUrl, Https)

\* ------------------------------------------------------------------- paths
\* The segments of a URL path: the runs of characters between slashes.
RECURSIVE Segments(_)
Segments(p) ==
  IF p = <<>> THEN <<>>
  ELSE IF p[1] = "/" THEN Segments(Tail(p))
  ELSE LET e == FirstOf(p, 1, {"/"})
       IN <<SubSeq(p, 1, e - 1)>> \o Segments(SubSeq(p, e, Len(p)))

\* A layout that puts every page directly under outputDirectory.
DirPathFlat(url) == <<>>

\* path.join(outputDirectory, hostname): a path is relative to outputDirectory.
DirPath(url) ==
  LET h == ParseURL(url).hostname IN IF h = <<>> THEN <<>> ELSE <<h>>

IndexPath(url) == DirPath(url) \o <<IndexHtml>>

\* A layout that keeps only the last segment of the asset's path.
AssetPathBasename(dir, assetUrl) ==
  LET segs == Segments(ParseURL(assetUrl).pathname)
  IN dir \o (IF segs = <<>> THEN <<>> ELSE <<segs[Len(segs)]>>)

\* path.join(dirPath, new URL(assetUrl).pathname)
AssetPath(dir, assetUrl) == dir \o Segments(ParseURL(assetUrl).pathname)

EndsWithSlash(assetUrl) ==
  LET p == ParseURL(assetUrl).pathname IN p # <<>> /\ p[Len(p)] = "/"

Dirname(path) == IF path = <<>> THEN <<>> ELSE SubSeq(path, 1, Len(path) - 1)

FetchFile(url) == <<extractDomainName(url) \o DotHtml>>

Prefixes(path) == {SubSeq(path, 1, k) : k \in 0..Len(path)}

\* ------------------------------------------------------------- environment
\* The command line: page URL candidates (two hosts, a relative path and the
\* empty string).
PageA == Http \o <<"a">>
PageB == Https \o <<"b","/","p">>
RelativeUrl == <<"/","r">>
EmptyUrl == <<>>
UrlCandidates == <<PageA, PageB, RelativeUrl, EmptyUrl>>

\* A second page of host a, and the page of the end-to-end scenario.
PageA2 == Http \o <<"a","/","q">>
ExampleHost == <<"e","x","a","m","p","l","e",".","c","o","m">>
PageExample == Https \o ExampleHost

\* What page.evaluate can return: resolved src/href strings of the document.
AssetLogo == Http \o <<"a","/","l">>
AssetLogoQ == Http \o <<"a","/","l","?","1">>
AssetNested == Https \o <<"c","/","d","/","s">>
AssetData == <<"d","a","t","a",":","x">>
AssetBlob == <<"b","l","o","b",":","y">>
AssetIndex == Http \o <<"a","/">> \o IndexHtml
AssetExampleLogo == Https \o ExampleHost \o <<"/","l","o","g","o",".","p","n","g">>
AssetExampleApp == Https \o ExampleHost \o <<"/","a","p","p",".","j","s">>
\* The documents a page can render to, as the lists page.evaluate returns
\* for them: the same page yields one of its own documents.
Documents(url) ==
  IF url = PageA
    THEN { <<AssetData, AssetLogo>>, <<AssetLogo, AssetLogoQ>> }
  ELSE IF url = PageA2
    THEN { <<AssetIndex>>, <<AssetLogo>> }
  ELSE IF url = PageExample
    THEN { <<AssetExampleLogo, AssetExampleApp>>, <<AssetExampleLogo>> }
    ELSE { <<>>, <<AssetLogo, AssetBlob, AssetNested>> }

\* The command lines of up to MaxUrls URLs.  No step depends on the position
\* of a URL in the list, so the lists are taken up to their order.
UrlLists ==
  UNION { { [i \in 1..n |-> UrlCandidates[f[i]]] :
              f \in {g \in [1..n -> DOMAIN UrlCandidates] :
                       \A i \in 1..n : \A k \in 1..n : i <= k => g[i] <= g[k]} } :
          n \in 0..MaxUrls }

\* Command lines with --mirror that name one page, the same page twice, two
\* pages of one host and two pages of two hosts.
PageLists ==
  { <<PageExample>>, <<PageExample, PageExample>>, <<PageA>>, <<PageA2>>,
    <<PageA, PageA2>>, <<PageA, PageB>> }

\* Strings handed to the validator: the three strings that are no URL, and
\* every string made of nothing or a scheme prefix, followed by up to
\* MaxInputLen characters of a small alphabet.
NotAUrl == <<"n","o","t"," ","a"," ","u","r","l">>
RelativePath == <<"/","r","e","l","a","t","i","v","e","/","p","a","t","h">>
InputAlphabet == {"a", ":", "/", " ", "?"}
InputPrefixes ==
  { <<>>, <<"h","t","t","p",":">>, Http, Https, <<"a",":","/","/">> }
ValidatorInputs ==
  {EmptyUrl, NotAUrl, RelativePath} \cup
  UNION { { pre \o suf : suf \in [1..n -> InputAlphabet] } :
            pre \in InputPrefixes, n \in 0..MaxInputLen }

\* page.content(): the serialized DOM of the page; response.buffer(): the
\* bytes of the asset; $.html(): the document fetched by axios.
PageContent(url) == [kind |-> "page", of |-> url]
AssetBytes(assetUrl) == [kind |-> "asset", of |-> assetUrl]
FetchedHtml(url) == [kind |-> "fetched", of |-> url]

\* --------------------------------------------------------------- the state
VARIABLES
  urls,        \* argv._ : the URLs of the command line
  mirrorFlag,  \* argv.mirror
  mainPc,      \* position of main()
  alive,       \* the node process is running
  fpc,         \* position of each fetchAndParseURL call
  pc,          \* position of each mirror call
  reason,      \* what rejected the mirror promise ("" when it is not rejected)
  procs,       \* the browser process launched by each mirror call:
               \* "none", "open" or "closed"
  browser,     \* the process that the variable browser of each mirror call
               \* refers to, named by the call that launched it (0: none yet)
  page,        \* the process that owns the page of each mirror call (0: none)
  navigated,   \* page.goto(url) was called by the mirror call
  dirPath,     \* the local dirPath of each mirror call, once line 125 set it
  discovered,  \* page.evaluate was called by the mirror call
  assets,      \* the assets returned by page.evaluate
  idx,         \* the loop position in assets
  fetched,     \* the positions for which page.goto(assetUrl) was called
  saved,       \* the positions logged as "Asset saved"
  failures,    \* number of asset failure lines written to console.error
  skipped,     \* number of "Skipping invalid asset URL" lines
  dirs,        \* the directories below outputDirectory
  files,       \* the files below outputDirectory: path -> content
  wrote,       \* the file paths each mirror call wrote
  made,        \* the directories each mirror call created
  faults       \* environment failures injected so far

vars == <<urls, mirrorFlag, mainPc, alive, fpc, pc, reason, procs, browser,
          page, navigated, dirPath, discovered, assets, idx, fetched, saved, failures,
          skipped, dirs, files, wrote, made, faults>>

Jobs == DOMAIN urls

CanFault == faults < MaxFaults

Init ==
  /\ urls \in UrlLists
  /\ mirrorFlag \in BOOLEAN
  /\ mainPc = "start"
  /\ alive = TRUE
  /\ fpc = [j \in Jobs |-> "idle"]
  /\ pc = [j \in Jobs |-> "idle"]
  /\ reason = [j \in Jobs |-> ""]
  /\ procs = [j \in Jobs |-> "none"]
  /\ browser = [j \in Jobs |-> 0]
  /\ page = [j \in Jobs |-> 0]
  /\ navigated = [j \in Jobs |-> FALSE]
  /\ dirPath = [j \in Jobs |-> <<>>]
  /\ discovered = [j \in Jobs |-> FALSE]
  /\ assets = [j \in Jobs |-> <<>>]
  /\ idx = [j \in Jobs |-> 0]
  /\ fetched = [j \in Jobs |-> {}]
  /\ saved = [j \in Jobs |-> {}]
  /\ failures = [j \in Jobs |-> 0]
  /\ skipped = [j \in Jobs |-> 0]
  /\ dirs = {<<>>}
  /\ files = <<>>
  /\ wrote = [j \in Jobs |-> {}]
  /\ made = [j \in Jobs |-> {}]
  /\ faults = 0

InitPages ==
  /\ urls \in PageLists
  /\ mirrorFlag = TRUE
  /\ mainPc = "start"
  /\ alive = TRUE
  /\ fpc = [j \in Jobs |-> "idle"]
  /\ pc = [j \in Jobs |-> "idle"]
  /\ reason = [j \in Jobs |-> ""]
  /\ procs = [j \in Jobs |-> "none"]
  /\ browser = [j \in Jobs |-> 0]
  /\ page = [j \in Jobs |-> 0]
  /\ navigated = [j \in Jobs |-> FALSE]
  /\ dirPath = [j \in Jobs |-> <<>>]
  /\ discovered = [j \in Jobs |-> FALSE]
  /\ assets = [j \in Jobs |-> <<>>]
  /\ idx = [j \in Jobs |-> 0]
  /\ fetched = [j \in Jobs |-> {}]
  /\ saved = [j \in Jobs |-> {}]
  /\ failures = [j \in Jobs |-> 0]
  /\ skipped = [j \in Jobs |-> 0]
  /\ dirs = {<<>>}
  /\ files = <<>>
  /\ wrote = [j \in Jobs |-> {}]
  /\ made = [j \in Jobs |-> {}]
  /\ faults = 0

\* One string on the command line, without --mirror.
InitValidator ==
  /\ urls \in { <<s>> : s \in ValidatorInputs }
  /\ mirrorFlag = FALSE
  /\ mainPc = "start"
  /\ alive = TRUE
  /\ fpc = [j \in Jobs |-> "idle"]
  /\ pc = [j \in Jobs |-> "idle"]
  /\ reason = [j \in Jobs |-> ""]
  /\ procs = [j \in Jobs |-> "none"]
  /\ browser = [j \in Jobs |-> 0]
  /\ page = [j \in Jobs |-> 0]
  /\ navigated = [j \in Jobs |-> FALSE]
  /\ dirPath = [j \in Jobs |-> <<>>]
  /\ discovered = [j \in Jobs |-> FALSE]
  /\ assets = [j \in Jobs |-> <<>>]
  /\ idx = [j \in Jobs |-> 0]
  /\ fetched = [j \in Jobs |-> {}]
  /\ saved = [j \in Jobs |-> {}]
  /\ failures = [j \in Jobs |-> 0]
  /\ skipped = [j \in Jobs |-> 0]
  /\ dirs = {<<>>}
  /\ files = <<>>
  /\ wrote = [j \in Jobs |-> {}]
  /\ made = [j \in Jobs |-> {}]
  /\ faults = 0

\* -------------------------------------------------------------- filesystem
Exists(ds, fs, path) == path \in ds \/ path \in DOMAIN fs

\* A mkdirSync without the recursive option: it throws on an existing path.
MkdirStrict(ds, fs, path) ==
  path \notin ds /\ \A q \in Prefixes(path) : q \notin DOMAIN fs

\* fs.mkdirSync(path, {recursive: true}) throws when a file is in the way.
MkdirOk(ds, fs, path) == \A q \in Prefixes(path) : q \notin DOMAIN fs

\* fs.writeFileSync(path, c) throws on a directory or a missing parent.
WriteOk(ds, fs, path) == path \notin ds /\ Dirname(path) \in ds /\ path # <<>>

\* A write that keeps the content of a file that exists.
PutKeep(fs, path, c) ==
  [q \in DOMAIN fs \cup {path} |-> IF q \in DOMAIN fs THEN fs[q] ELSE c]

Put(fs, path, c) ==
  [q \in DOMAIN fs \cup {path} |-> IF q = path THEN c ELSE fs[q]]

mainVars == <<urls, mirrorFlag, mainPc, alive>>
fsVars == <<dirs, files, wrote, made>>
assetVars == <<assets, idx, fetched, saved, failures, skipped>>
browserVars == <<procs, browser, page>>

\* ------------------------------------------------------------------ main()
\* Lines 182-186: every fetchAndParseURL call runs up to its first await;
\* an invalid URL is logged as skipped and the call returns at once.
MainStart ==
  /\ alive /\ mainPc = "start"
  /\ mainPc' = "awaitFetch"
  /\ fpc' = [j \in Jobs |-> IF isValidUrl(urls[j]) THEN "get" ELSE "done"]
  /\ UNCHANGED <<urls, mirrorFlag, alive, pc, reason, browserVars, navigated, dirPath,
                 discovered, assetVars, fsVars, faults>>

\* Lines 65-88: axios.get settles; on success the html is written to
\* outputDirectory/<hostname>.html.  Every throw is caught at line 86.
FetchDone(j) ==
  /\ alive /\ fpc[j] = "get"
  /\ fpc' = [fpc EXCEPT ![j] = "done"]
  /\ \/ /\ files' = IF WriteOk(dirs, files, FetchFile(urls[j]))
                     THEN Put(files, FetchFile(urls[j]), FetchedHtml(urls[j]))
                     ELSE files
        /\ UNCHANGED faults
     \/ /\ CanFault
        /\ faults' = faults + 1
        /\ UNCHANGED files
  /\ UNCHANGED <<mainVars, pc, reason, browserVars, navigated, dirPath, discovered,
                 assetVars, dirs, wrote, made>>

\* A main() that does not await the fetchAndParseURL calls.
MainAfterFetchNoWait ==
  /\ alive /\ mainPc = "awaitFetch"
  /\ IF mirrorFlag
       THEN /\ mainPc' = "awaitMirror"
            /\ pc' = [j \in Jobs |-> "launch"]
       ELSE /\ mainPc' = "returned"
            /\ UNCHANGED pc
  /\ UNCHANGED <<urls, mirrorFlag, alive, fpc, reason, browserVars, navigated,
                 dirPath, discovered, assetVars, fsVars, faults>>

\* Lines 186-191: Promise.all(fetchPromises) is fulfilled; without --mirror
\* main returns, with it every mirror call runs up to puppeteer.launch.
MainAfterFetch ==
  /\ alive /\ mainPc = "awaitFetch"
  /\ \A j \in Jobs : fpc[j] = "done"
  /\ IF mirrorFlag
       THEN /\ mainPc' = "awaitMirror"
            /\ pc' = [j \in Jobs |-> "launch"]
       ELSE /\ mainPc' = "returned"
            /\ UNCHANGED pc
  /\ UNCHANGED <<urls, mirrorFlag, alive, fpc, reason, browserVars, navigated, dirPath,
                 discovered, assetVars, fsVars, faults>>

\* Line 191-192: Promise.all(mirrorPromises) is fulfilled when every mirror
\* promise is fulfilled.
MainMirrorFulfilled ==
  /\ alive /\ mainPc = "awaitMirror"
  /\ \A j \in Jobs : pc[j] = "done"
  /\ mainPc' = "completed"
  /\ UNCHANGED <<urls, mirrorFlag, alive, fpc, pc, reason, browserVars,
                 navigated, dirPath, discovered, assetVars, fsVars, faults>>

\* Line 191: Promise.all(mirrorPromises) is rejected as soon as one mirror
\* promise is rejected; the await throws and the promise of main() rejects.
MainMirrorRejected ==
  /\ alive /\ mainPc = "awaitMirror"
  /\ \E j \in Jobs : pc[j] = "rejected"
  /\ mainPc' = "rejected"
  /\ UNCHANGED <<urls, mirrorFlag, alive, fpc, pc, reason, browserVars,
                 navigated, dirPath, discovered, assetVars, fsVars, faults>>

\* Line 205: main() has no rejection handler.  Node 15 and later (the
\* Dockerfile builds on node:18) ends the process on an unhandled rejection.
ProcessExit ==
  /\ alive /\ mainPc = "rejected"
  /\ alive' = FALSE
  /\ UNCHANGED <<urls, mirrorFlag, mainPc, fpc, pc, reason, browserVars,
                 navigated, dirPath, discovered, assetVars, fsVars, faults>>

\* ---------------------------------------------------------------- mirror()
\* A throw outside a try block rejects the promise of the mirror call.
Reject(j, why) ==
  /\ pc' = [pc EXCEPT ![j] = "rejected"]
  /\ reason' = [reason EXCEPT ![j] = why]

\* A launch that hands out the browser of a sibling call when one is open.
LaunchDoneShared(j) ==
  /\ alive /\ pc[j] = "launch"
  /\ IF \E k \in Jobs : procs[k] = "open"
       THEN /\ browser' = [browser EXCEPT ![j] =
                             CHOOSE k \in Jobs : procs[k] = "open"]
            /\ UNCHANGED procs
       ELSE /\ procs' = [procs EXCEPT ![j] = "open"]
            /\ browser' = [browser EXCEPT ![j] = j]
  /\ pc' = [pc EXCEPT ![j] = "newPage"]
  /\ UNCHANGED <<mainVars, fpc, reason, faults, page, navigated, dirPath, discovered,
                 assetVars, fsVars>>

\* Lines 114-118: puppeteer.launch settles; then browser.newPage is called.
LaunchDone(j) ==
  /\ alive /\ pc[j] = "launch"
  /\ \/ /\ procs' = [procs EXCEPT ![j] = "open"]
        /\ browser' = [browser EXCEPT ![j] = j]
        /\ pc' = [pc EXCEPT ![j] = "newPage"]
        /\ UNCHANGED <<reason, faults>>
     \/ /\ CanFault
        /\ faults' = faults + 1
        /\ Reject(j, "launch")
        /\ UNCHANGED <<procs, browser>>
  /\ UNCHANGED <<mainVars, fpc, page, navigated, dirPath, discovered, assetVars, fsVars>>

\* A call that queries the document before it navigates the page to the URL.
NewPageDoneDiscoverFirst(j) ==
  /\ alive /\ pc[j] = "newPage"
  /\ page' = [page EXCEPT ![j] = browser[j]]
  /\ navigated' = [navigated EXCEPT ![j] = TRUE]
  /\ discovered' = [discovered EXCEPT ![j] = TRUE]
  /\ pc' = [pc EXCEPT ![j] = "goto"]
  /\ UNCHANGED <<mainVars, fpc, reason, faults, procs, browser, dirPath,
                 assetVars, fsVars>>

\* Lines 118-120: browser.newPage settles; then page.goto(url) is called.
NewPageDone(j) ==
  /\ alive /\ pc[j] = "newPage"
  /\ \/ /\ page' = [page EXCEPT ![j] = browser[j]]
        /\ navigated' = [navigated EXCEPT ![j] = TRUE]
        /\ pc' = [pc EXCEPT ![j] = "goto"]
        /\ UNCHANGED <<reason, faults>>
     \/ /\ CanFault
        /\ faults' = faults + 1
        /\ Reject(j, "newPage")
        /\ UNCHANGED <<page, navigated>>
  /\ UNCHANGED <<mainVars, fpc, procs, browser, dirPath, discovered, assetVars,
                 fsVars>>

\* A navigation whose failure is logged and then ignored.
GotoDoneSwallowed(j) ==
  /\ alive /\ pc[j] = "goto"
  /\ pc' = [pc EXCEPT ![j] = "content"]
  /\ \/ /\ ParseURL(urls[j]).ok
        /\ UNCHANGED <<reason, faults>>
     \/ /\ ~ParseURL(urls[j]).ok \/ CanFault
        /\ faults' = IF ParseURL(urls[j]).ok THEN faults + 1 ELSE faults
        /\ reason' = [reason EXCEPT ![j] = "render"]
  /\ UNCHANGED <<mainVars, fpc, browserVars, navigated, dirPath, discovered, assetVars,
                 fsVars>>

\* Lines 120-123: page.goto(url) settles; then page.content is called.  The
\* browser cannot navigate to a string that is not a URL; a URL can fail to
\* load (timeout, DNS, TLS).
GotoDone(j) ==
  /\ alive /\ pc[j] = "goto"
  /\ \/ /\ ParseURL(urls[j]).ok
        /\ pc' = [pc EXCEPT ![j] = "content"]
        /\ UNCHANGED <<reason, faults>>
     \/ /\ ~ParseURL(urls[j]).ok \/ CanFault
        /\ faults' = IF ParseURL(urls[j]).ok THEN faults + 1 ELSE faults
        /\ Reject(j, "render")
  /\ UNCHANGED <<mainVars, fpc, browserVars, navigated, dirPath, discovered, assetVars,
                 fsVars>>

\* Lines 123-136: page.content settles; the per-host directory is created
\* when missing, index.html is written and page.evaluate is called.  o is
\* what the environment does: "ok", or the call that fails.
ContentDone(j) ==
  /\ alive /\ pc[j] = "content"
  /\ \E o \in {"ok", "content", "mkdir", "write"} :
       LET url == urls[j]
           dir == DirPath(url)
           indexPath == IndexPath(url)
           exists == Exists(dirs, files, dir)
           mkdirOk == MkdirOk(dirs, files, dir) /\ o # "mkdir"
           dirs1 == IF exists THEN dirs ELSE dirs \cup Prefixes(dir)
           writeOk == WriteOk(dirs1, files, indexPath) /\ o # "write"
       IN /\ o # "ok" => CanFault
          /\ o = "mkdir" => ~exists
          /\ faults' = IF o = "ok" THEN faults ELSE faults + 1
          /\ IF o = "content" \/ ~ParseURL(url).ok
               THEN /\ Reject(j, IF o = "content" THEN "content" ELSE "url")
                    /\ UNCHANGED <<fsVars, dirPath, discovered>>
             ELSE IF ~exists /\ ~mkdirOk
               THEN /\ Reject(j, "fs")
                    /\ dirPath' = [dirPath EXCEPT ![j] = dir]
                    /\ UNCHANGED <<fsVars, discovered>>
             ELSE IF ~writeOk
               THEN /\ Reject(j, "fs")
                    /\ dirPath' = [dirPath EXCEPT ![j] = dir]
                    /\ dirs' = dirs1
                    /\ made' = [made EXCEPT ![j] = @ \cup (dirs1 \ dirs)]
                    /\ UNCHANGED <<files, wrote, discovered>>
             ELSE /\ dirPath' = [dirPath EXCEPT ![j] = dir]
                  /\ dirs' = dirs1
                  /\ made' = [made EXCEPT ![j] = @ \cup (dirs1 \ dirs)]
                  /\ files' = Put(files, indexPath, PageContent(url))
                  /\ wrote' = [wrote EXCEPT ![j] = @ \cup {indexPath}]
                  /\ discovered' = [discovered EXCEPT ![j] = TRUE]
                  /\ pc' = [pc EXCEPT ![j] = "evaluate"]
                  /\ UNCHANGED reason
  /\ UNCHANGED <<mainVars, fpc, browserVars, navigated, assetVars>>

\* Lines 152-156: the position of the next asset, at or after from, that
\* passes the prefix test; Len(as) + 1 when the loop ends.
RECURSIVE NextFetch(_, _)
NextFetch(as, from) ==
  IF from > Len(as) THEN Len(as) + 1
  ELSE IF IsFetchable(as[from]) THEN from
  ELSE NextFetch(as, from + 1)

\* A loop that starts the navigation of every remaining asset at once.
LoopFromAll(j, as, from) ==
  LET next == NextFetch(as, from)
  IN /\ skipped' = [skipped EXCEPT ![j] = @ + (next - from)]
     /\ idx' = [idx EXCEPT ![j] = next]
     /\ IF next <= Len(as)
          THEN /\ fetched' = [fetched EXCEPT ![j] =
                                @ \cup {k \in next..Len(as) : IsFetchable(as[k])}]
               /\ pc' = [pc EXCEPT ![j] = "assetGoto"]
          ELSE /\ pc' = [pc EXCEPT ![j] = "close"]
               /\ UNCHANGED fetched

\* Lines 152-159 and 174: the loop runs from position from of as up to its
\* next await: page.goto(assetUrl) of the next asset that passes the test,
\* or browser.close() after the last asset.
LoopFrom(j, as, from) ==
  LET next == NextFetch(as, from)
  IN /\ skipped' = [skipped EXCEPT ![j] = @ + (next - from)]
     /\ idx' = [idx EXCEPT ![j] = next]
     /\ IF next <= Len(as)
          THEN /\ fetched' = [fetched EXCEPT ![j] = @ \cup {next}]
               /\ pc' = [pc EXCEPT ![j] = "assetGoto"]
          ELSE /\ pc' = [pc EXCEPT ![j] = "close"]
               /\ UNCHANGED fetched

\* Lines 136-152: page.evaluate settles with the asset URLs of the document.
EvaluateDone(j) ==
  /\ alive /\ pc[j] = "evaluate"
  /\ \/ /\ \E l \in Documents(urls[j]) :
             /\ assets' = [assets EXCEPT ![j] = l]
             /\ LoopFrom(j, l, 1)
        /\ UNCHANGED <<reason, faults, saved, failures>>
     \/ /\ CanFault
        /\ faults' = faults + 1
        /\ Reject(j, "evaluate")
        /\ UNCHANGED assetVars
  /\ UNCHANGED <<mainVars, fpc, browserVars, navigated, dirPath, discovered, fsVars>>

\* An asset navigation without the try block: its failure rejects the call.
AssetGotoDoneNoCatch(j) ==
  /\ alive /\ pc[j] = "assetGoto"
  /\ \/ /\ pc' = [pc EXCEPT ![j] = "assetBuffer"]
        /\ UNCHANGED <<assetVars, faults, reason>>
     \/ /\ CanFault
        /\ faults' = faults + 1
        /\ Reject(j, "asset")
        /\ UNCHANGED assetVars
  /\ UNCHANGED <<mainVars, fpc, browserVars, navigated, dirPath, discovered, fsVars>>

\* Lines 159-171: page.goto(assetUrl) settles: with a response, whose
\* buffer is then requested; with no response (line 167); or rejected, which
\* the catch of line 169 reports.
AssetGotoDone(j) ==
  /\ alive /\ pc[j] = "assetGoto"
  /\ \/ /\ pc' = [pc EXCEPT ![j] = "assetBuffer"]
        /\ UNCHANGED <<assetVars, faults>>
     \/ /\ CanFault
        /\ faults' = faults + 1
        /\ failures' = [failures EXCEPT ![j] = @ + 1]
        /\ LoopFrom(j, assets[j], idx[j] + 1)
        /\ UNCHANGED <<assets, saved>>
  /\ UNCHANGED <<mainVars, fpc, reason, browserVars, navigated, dirPath, discovered,
                 fsVars>>

\* Lines 161-171: response.buffer settles; the asset path is computed, its
\* directory is created and the bytes are written.  Every throw is caught at
\* line 169 and the loop goes on.  o is what the environment does.
AssetBufferDone(j) ==
  /\ alive /\ pc[j] = "assetBuffer"
  /\ \E o \in {"ok", "buffer", "mkdir", "write"} :
       LET assetUrl == assets[j][idx[j]]
           assetPath == AssetPath(dirPath[j], assetUrl)
           parsed == ParseURL(assetUrl).ok
           mkdirOk == MkdirOk(dirs, files, Dirname(assetPath)) /\ o # "mkdir"
           dirs1 == dirs \cup Prefixes(Dirname(assetPath))
           writeOk == /\ WriteOk(dirs1, files, assetPath)
                      /\ ~EndsWithSlash(assetUrl)
                      /\ o # "write"
       IN /\ o # "ok" => CanFault
          /\ faults' = IF o = "ok" THEN faults ELSE faults + 1
          /\ IF o = "buffer" \/ ~parsed \/ ~mkdirOk
               THEN /\ failures' = [failures EXCEPT ![j] = @ + 1]
                    /\ UNCHANGED <<fsVars, saved>>
             ELSE IF ~writeOk
               THEN /\ failures' = [failures EXCEPT ![j] = @ + 1]
                    /\ dirs' = dirs1
                    /\ made' = [made EXCEPT ![j] = @ \cup (dirs1 \ dirs)]
                    /\ UNCHANGED <<files, wrote, saved>>
             ELSE /\ dirs' = dirs1
                  /\ made' = [made EXCEPT ![j] = @ \cup (dirs1 \ dirs)]
                  /\ files' = Put(files, assetPath, AssetBytes(assetUrl))
                  /\ wrote' = [wrote EXCEPT ![j] = @ \cup {assetPath}]
                  /\ saved' = [saved EXCEPT ![j] = @ \cup {idx[j]}]
                  /\ UNCHANGED failures
          /\ LoopFrom(j, assets[j], idx[j] + 1)
  /\ UNCHANGED <<mainVars, fpc, reason, browserVars, navigated, dirPath, discovered,
                 assets>>

\* Lines 174-176: browser.close settles; the mirror promise is fulfilled.
CloseDone(j) ==
  /\ alive /\ pc[j] = "close"
  /\ \/ /\ procs' = [procs EXCEPT ![browser[j]] = "closed"]
        /\ pc' = [pc EXCEPT ![j] = "done"]
        /\ UNCHANGED <<reason, faults>>
     \/ /\ CanFault
        /\ faults' = faults + 1
        /\ Reject(j, "close")
        /\ UNCHANGED procs
  /\ UNCHANGED <<mainVars, fpc, browser, page, navigated, dirPath, discovered,
                 assetVars, fsVars>>

\* ------------------------------------------------------- the specification
Next ==
  \/ MainStart
  \/ \E j \in Jobs : FetchDone(j)
  \/ MainAfterFetch
  \/ \E j \in Jobs : LaunchDone(j)
  \/ \E j \in Jobs : NewPageDone(j)
  \/ \E j \in Jobs : GotoDone(j)
  \/ \E j \in Jobs : ContentDone(j)
  \/ \E j \in Jobs : EvaluateDone(j)
  \/ \E j \in Jobs : AssetGotoDone(j)
  \/ \E j \in Jobs : AssetBufferDone(j)
  \/ \E j \in Jobs : CloseDone(j)
  \/ MainMirrorFulfilled
  \/ MainMirrorRejected
  \/ ProcessExit

Spec == Init /\ [][Next]_vars

\* The same program on the command lines of PageLists.
SpecPages == InitPages /\ [][Next]_vars

\* The first phase of main() on one string: the validator decides whether
\* the string is fetched.
NextValidator ==
  \/ MainStart
  \/ \E j \in Jobs : FetchDone(j)
  \/ MainAfterFetch

SpecValidator == InitValidator /\ [][NextValidator]_vars

\* -------------------------------------------------------------- properties
Terminal(j) == pc[j] \in {"done", "rejected"}

HasHttpPrefix(str) ==
  \E p \in {Http, Https} : Len(str) >= Len(p) /\ SubSeq(str, 1, Len(p)) = p

Fetchable(j) == {k \in 1..Len(assets[j]) : HasHttpPrefix(assets[j][k])}

\* C1: when the process has ended and the mirror call of one URL failed to
\* render, every other mirror call, for a well-formed URL, that did not fail
\* itself has ended with its index.html written and its asset loop run to
\* the end.
C1_BatchFailureIsolation ==
  (~alive /\ \E k \in Jobs : reason[k] = "render") =>
    \A j \in Jobs :
      (pc[j] # "rejected" /\ isValidUrl(urls[j])) =>
        /\ pc[j] = "done"
        /\ dirPath[j] \o <<IndexHtml>> \in wrote[j]
        /\ idx[j] = Len(assets[j]) + 1

\* C2: the await on the mirror promises settles only when every mirror call
\* has reached its terminal state.
C2_NoShortCircuit ==
  mainPc \in {"completed", "rejected"} => \A j \in Jobs : Terminal(j)

\* C3: main() never ends with an error propagated out of the batch.
C3_BatchNeverRejects == mainPc # "rejected"

\* C4: a failing asset fetch is reported once and aborts nothing: a mirror
\* call in or after its asset loop has index.html on disk, has attempted
\* every fetchable asset before its loop position, has reported exactly one
\* failure per attempted asset that was not saved, and is never rejected by
\* an asset (only a failing browser.close can reject it after the loop
\* started); once done it has attempted every fetchable asset.
C4_AssetFailureIsolated ==
  \A j \in Jobs :
    /\ pc[j] \in {"assetGoto", "assetBuffer", "close", "done"} =>
         /\ dirPath[j] \o <<IndexHtml>> \in DOMAIN files
         /\ {k \in Fetchable(j) : k <= idx[j]} = fetched[j]
         /\ failures[j] = Cardinality({k \in fetched[j] : k < idx[j]} \ saved[j])
    /\ pc[j] = "done" => fetched[j] = Fetchable(j)
    /\ (pc[j] = "rejected" /\ fetched[j] # {}) => reason[j] = "close"

\* C4 witness: a call ended successfully after its first asset failed and a
\* later asset was fetched and saved.
C4_Witness ==
  \E j \in Jobs :
    /\ pc[j] = "done" /\ failures[j] = 1
    /\ 1 \in fetched[j] \ saved[j]
    /\ 2 \in saved[j]

\* C5: a mirror call that has ended, in either way, has no open browser.
C5_BrowserReleased ==
  \A j \in Jobs : Terminal(j) => procs[j] # "open"

\* C6: for a URL the validator rejects no browser is launched, no
\* navigation is started and no file is written.
C6_InvalidUrlSkipped ==
  \A j \in Jobs :
    ~isValidUrl(urls[j]) =>
      procs[j] = "none" /\ ~navigated[j] /\ wrote[j] = {}

\* C7: a mirror call whose page navigation failed is terminated, created no
\* directory, wrote no file, and attempted neither discovery nor a fetch.
C7_RenderFailureWritesNothing ==
  \A j \in Jobs :
    reason[j] = "render" =>
      /\ pc[j] = "rejected"
      /\ made[j] = {} /\ wrote[j] = {}
      /\ ~discovered[j] /\ fetched[j] = {} /\ saved[j] = {}

\* C7 witness: the navigation to a well-formed URL failed while a sibling
\* call has written its page.
C7_Witness ==
  \E j, k \in Jobs :
    /\ reason[j] = "render" /\ isValidUrl(urls[j])
    /\ wrote[k] # {}

\* C8: only assets that begin with http:// or https:// are fetched or
\* written (a mirror call writes its page and at most one file per saved
\* asset); every other asset the loop has passed was skipped, once, without
\* a fetch, and the loop went on to the assets after it.
C8_AssetSchemeFilter ==
  \A j \in Jobs :
    /\ \A k \in fetched[j] \cup saved[j] : HasHttpPrefix(assets[j][k])
    /\ Cardinality(wrote[j]) <= 1 + Cardinality(saved[j])
    /\ pc[j] \in {"assetGoto", "assetBuffer", "close", "done"} =>
         skipped[j] =
           Cardinality({k \in 1..Len(assets[j]) : k < idx[j]} \ Fetchable(j))
    /\ pc[j] = "done" => Fetchable(j) \subseteq fetched[j]

\* C8 witness: a data: asset was skipped and the asset after it was saved.
C8_Witness ==
  \E j \in Jobs :
    /\ Len(assets[j]) = 2
    /\ ~HasHttpPrefix(assets[j][1])
    /\ skipped[j] = 1
    /\ saved[j] = {2}

C10_FsFailureContained ==
  \A j \in Jobs : reason[j] # "fs"

\* C11: in every mirror call the steps come in the order render ->
\* discovery -> fetch of an asset -> write of that asset: page.evaluate is
\* called only when page.content of the rendered page has settled and
\* before any asset navigation; an asset navigation starts only after
\* page.evaluate has returned; and an asset is saved only by the step in
\* which the buffer of its own response arrives.
C11_IntraJobOrdering ==
  [][\A j \in Jobs :
       /\ discovered'[j] # discovered[j] =>
            pc[j] = "content" /\ navigated[j] /\ fetched[j] = {}
       /\ fetched'[j] # fetched[j] =>
            /\ pc[j] \in {"evaluate", "assetGoto", "assetBuffer"}
            /\ discovered[j]
            /\ pc'[j] = "assetGoto"
            /\ fetched'[j] = fetched[j] \cup {idx'[j]}
       /\ saved'[j] # saved[j] =>
            /\ pc[j] = "assetBuffer"
            /\ idx[j] \in fetched[j]
            /\ saved'[j] = saved[j] \cup {idx[j]}]_vars

\* C11 witness: a call has rendered, discovered, fetched and saved an asset.
C11_Witness ==
  \E j \in Jobs :
    navigated[j] /\ discovered[j] /\ saved[j] # {} /\ saved[j] \subseteq fetched[j]

\* C16 as stated: the asset fetches of a page run concurrently: while one
\* asset navigation is in flight, the navigation of every other fetchable
\* asset of the page has been started as well.
C16_ConcurrentFetches ==
  \A j \in Jobs :
    pc[j] \in {"assetGoto", "assetBuffer"} => fetched[j] = Fetchable(j)

\* C16 amended: the asset fetches of a page run one at a time, in discovery
\* order: a navigation starts for one asset, later in the list than every
\* asset fetched before, and only when each of those has been saved or
\* reported as failed.
C16_SequentialFetches ==
  [][\A j \in Jobs :
       fetched'[j] # fetched[j] =>
         /\ \E k \in fetched'[j] \ fetched[j] :
              /\ fetched'[j] = fetched[j] \cup {k}
              /\ \A m \in fetched[j] : m < k
         /\ failures'[j] = Cardinality(fetched[j] \ saved'[j])]_vars

\* C16 witness: the second fetch of a page is in flight and the first one
\* has been saved.
C16_Witness ==
  \E j \in Jobs :
    /\ pc[j] = "assetGoto" /\ Cardinality(fetched[j]) = 2
    /\ idx[j] \in fetched[j] \ saved[j]
    /\ \E m \in saved[j] : m < idx[j]

\* C19: no mirror call is started, and no browser launched, before every
\* fetchAndParseURL call has ended, and then only with --mirror; with
\* --mirror every mirror call is started once the first phase has settled;
\* main() is never rejected by the first phase.
C19_PhaseOrdering ==
  /\ (\E j \in Jobs : pc[j] # "idle" \/ procs[j] # "none") =>
       (mirrorFlag /\ \A k \in Jobs : fpc[k] = "done")
  /\ mainPc \in {"awaitMirror", "completed", "rejected"} =>
       (mirrorFlag /\ \A j \in Jobs : pc[j] # "idle")
  /\ mainPc = "returned" => (~mirrorFlag /\ \A k \in Jobs : fpc[k] = "done")
  /\ mainPc = "rejected" => \E j \in Jobs : pc[j] = "rejected"

\* C19 witness: a browser is open after a page was fetched and saved by the
\* first phase.
C19_Witness ==
  \E j \in Jobs :
    /\ procs[j] = "open"
    /\ FetchFile(urls[j]) \in DOMAIN files
    /\ \A k \in Jobs : fpc[k] = "done"

\* C12 as stated: two mirror calls for different URLs never write the same
\* file, asset collisions apart; in particular they never both write the
\* page to the same index.html.
C12_DisjointWriteSets ==
  \A j \in Jobs : \A k \in Jobs :
    (urls[j] # urls[k] /\ discovered[j] /\ discovered[k]) =>
      dirPath[j] \o <<IndexHtml>> # dirPath[k] \o <<IndexHtml>>

\* C12 amended: two mirror calls for URLs with different, non-empty
\* hostnames never write the same file.
C12_DisjointByHostname ==
  \A j \in Jobs : \A k \in Jobs :
    LET hj == extractDomainName(urls[j])
        hk == extractDomainName(urls[k])
    IN (hj # hk /\ hj # <<>> /\ hk # <<>>) => wrote[j] \cap wrote[k] = {}

\* C12 witness: two calls for different hosts have ended, each having
\* written its page and an asset.
C12_Witness ==
  \E j \in Jobs : \E k \in Jobs :
    /\ pc[j] = "done" /\ pc[k] = "done"
    /\ dirPath[j] # dirPath[k]
    /\ Cardinality(wrote[j]) >= 2 /\ Cardinality(wrote[k]) >= 2

\* The files the end-to-end scenario expects under outputDirectory.
ExampleFiles ==
  { <<ExampleHost, IndexHtml>>,
    <<ExampleHost, <<"l","o","g","o",".","p","n","g">>>>,
    <<ExampleHost, <<"a","p","p",".","j","s">>>> }

\* C13: a mirror call that saved its page has written it to
\* <hostname>/index.html; every asset it saved is at <hostname>/<path of the
\* asset URL>; it has written nothing else; the directory of every file it
\* wrote exists; and the call for https://example.com whose document names
\* logo.png and app.js, when both are saved, has written exactly index.html,
\* logo.png and app.js under example.com; the call for https://b/p that saved
\* the asset https://c/d/s has written it to b/d/s and made the directory b/d.
C13_OutputLayout ==
  \A j \in Jobs :
    /\ discovered[j] =>
         /\ dirPath[j] = <<extractDomainName(urls[j])>>
         /\ wrote[j] = {dirPath[j] \o <<IndexHtml>>} \cup
                       {AssetPath(dirPath[j], assets[j][k]) : k \in saved[j]}
    /\ ~discovered[j] => wrote[j] = {}
    /\ \A p \in wrote[j] : p \in DOMAIN files /\ Dirname(p) \in dirs
    /\ (urls[j] = PageExample /\ saved[j] = {1, 2}) => wrote[j] = ExampleFiles
    /\ (urls[j] = PageB /\ 3 \in saved[j]) =>
         /\ <<<<"b">>, <<"d">>, <<"s">>>> \in wrote[j]
         /\ <<<<"b">>, <<"d">>>> \in dirs

\* C13 witness: the call for https://example.com has ended with both assets
\* saved.
C13_Witness ==
  \E j \in Jobs :
    urls[j] = PageExample /\ pc[j] = "done" /\ saved[j] = {1, 2}

\* C14: mirroring the same URL twice into the same output directory meets no
\* error: neither call is rejected and no asset fails; each call's page and
\* saved assets are in the files at their paths; and a step of a call never
\* deletes a file or a directory and changes no file at a path that the call
\* has not written.
C14_IdempotentRemirror ==
  /\ [](\A j \in Jobs : \A k \in Jobs :
          (j # k /\ urls[j] = urls[k] /\ faults = 0) =>
            /\ pc[j] # "rejected" /\ failures[j] = 0
            /\ discovered[j] =>
                 files[dirPath[j] \o <<IndexHtml>>] = PageContent(urls[j])
            /\ \A a \in saved[j] :
                 files[AssetPath(dirPath[j], assets[j][a])] =
                   AssetBytes(assets[j][a]))
  /\ [][\A k \in Jobs :
          pc'[k] # pc[k] =>
            /\ dirs \subseteq dirs'
            /\ \A p \in DOMAIN files :
                 /\ p \in DOMAIN files'
                 /\ p \notin wrote'[k] => files'[p] = files[p]]_vars

\* C14 witness: two calls for the same URL have ended without a fault, the
\* documents they rendered differ, and a file that only one of them wrote is
\* still there.
C14_Witness ==
  \E j \in Jobs : \E k \in Jobs :
    /\ j # k /\ urls[j] = urls[k] /\ faults = 0
    /\ pc[j] = "done" /\ pc[k] = "done"
    /\ \E p \in wrote[j] \ wrote[k] : p \in DOMAIN files

\* C17: when two different asset URLs of a page have the same local path
\* and both are saved, the file holds the bytes of the later one (as long
\* as no other call wrote the path); without a fault the call that has left
\* its loop has saved every fetchable asset and logged no failure.
C17_LastWriteWins ==
  \A j \in Jobs :
    /\ \A k \in saved[j] : \A m \in saved[j] :
         LET path == AssetPath(dirPath[j], assets[j][m])
         IN (/\ k < m /\ assets[j][k] # assets[j][m]
             /\ AssetPath(dirPath[j], assets[j][k]) = path
             /\ \A n \in saved[j] : n > m =>
                  AssetPath(dirPath[j], assets[j][n]) # path
             /\ \A o \in Jobs \ {j} : path \notin wrote[o])
            => files[path] = AssetBytes(assets[j][m])
    /\ (faults = 0 /\ pc[j] \in {"close", "done"}) =>
         (saved[j] = Fetchable(j) /\ failures[j] = 0)

\* C17 witness: a call has saved two assets that differ in the query string
\* only, and has ended.
C17_Witness ==
  \E j \in Jobs :
    /\ pc[j] = "done" /\ saved[j] = {1, 2}
    /\ assets[j] = <<AssetLogo, AssetLogoQ>>
    /\ files[AssetPath(dirPath[j], AssetLogo)] = AssetBytes(AssetLogoQ)

\* C18: after a mirror call has ended successfully, index.html in its
\* directory holds the page's rendered document (as long as no other call
\* wrote that file).
C18_PageFileIntegrity ==
  \A j \in Jobs :
    LET indexPath == dirPath[j] \o <<IndexHtml>>
    IN (pc[j] = "done" /\ \A o \in Jobs \ {j} : indexPath \notin wrote[o])
         => files[indexPath] = PageContent(urls[j])

\* A well-formed absolute URL: http:// or https://, a host of letters, dots
\* and hyphens that starts with a letter, then nothing or a path, query or
\* fragment without spaces.
WellFormedAbsolute(str) ==
  \E p \in {Http, Https} :
    /\ StartsWith(str, p)
    /\ Len(str) > Len(p)
    /\ str[Len(p) + 1] \in Alpha
    /\ \E e \in (Len(p) + 1)..Len(str) :
         /\ \A k \in (Len(p) + 1)..e : str[k] \in Alpha \cup {".", "-"}
         /\ e < Len(str) => str[e + 1] \in {"/", "?", "#"}
         /\ \A k \in (e + 1)..Len(str) : str[k] # " "

\* C15: isValidUrl yields a boolean for every string; it is FALSE for the
\* empty string, "not a url" and "/relative/path", which are then never
\* fetched and leave no file; it is TRUE for every well-formed absolute URL,
\* which is then fetched, and saved when no fault occurs.
C15_ValidatorTotality ==
  \A j \in Jobs :
    /\ isValidUrl(urls[j]) \in BOOLEAN
    /\ fpc[j] \in {"idle", "get", "done"}
    /\ urls[j] \in {EmptyUrl, NotAUrl, RelativePath} =>
         /\ ~isValidUrl(urls[j])
         /\ fpc[j] # "get" /\ files = <<>>
    /\ WellFormedAbsolute(urls[j]) =>
         /\ isValidUrl(urls[j])
         /\ mainPc = "awaitFetch" => fpc[j] = "get" \/ faults > 0 \/ files # <<>>

\* C15 witness: a well-formed absolute URL with a path has been accepted,
\* fetched and saved.
C15_Witness ==
  \E j \in Jobs :
    /\ WellFormedAbsolute(urls[j]) /\ Len(urls[j]) > Len(Https) + 1
    /\ fpc[j] = "done" /\ FetchFile(urls[j]) \in DOMAIN files

====
